---- MODULE Spec2Model ----
(***************************************************************************)
(* A model of zotify/utils.py: the download archive and the per-directory  *)
(* `.song_ids` manifest, the m3u8 playlist writer, the URL/URI identifier  *)
(* extractor, the filename sanitizer and the duration formatter.           *)
(*                                                                         *)
(* Text is modelled character by character: a Python str is a sequence of  *)
(* one-character strings, a file is the sequence of characters it holds.   *)
(* Control characters that TLA+ cannot escape are written in caret         *)
(* notation ("^@" is chr(0), "^A" is chr(1), ..., "^_" is chr(31)).        *)
(***************************************************************************)
EXTENDS Integers, Sequences, FiniteSets, TLC

VARIABLES
    arg,        \* the argument of the pure function under check
    result,     \* what the function returned (Pending before the call)
    pass2,      \* fix_filename applied to its own output (Pending before)
    archive,    \* content of the song archive file, or NoFile
    songIds,    \* content of <download_path>/.song_ids, or NoFile
    dirExists,  \* whether the download directory exists
    disabled,   \* Zotify.CONFIG.get_disable_directory_archives()
    call,       \* the last archive/manifest/playlist call and its arguments
    ret,        \* what the last reading call returned
    log,        \* the calls that reached their write, in call order
    songIds0,   \* the content of .song_ids when the run began, or NoFile
    archive0,   \* the content of the archive when the run began, or NoFile
    m3u,        \* content of the run's playlist file, or NoFile
    pcs,        \* concurrent add_to_archive: position of each caller
    handle      \* concurrent add_to_archive: the open mode of each caller

pureVars == <<arg, result, pass2>>
fsVars   == <<archive, songIds, dirExists, disabled, call, ret, log,
              songIds0, archive0, m3u>>
concVars == <<pcs, handle>>
vars     == <<arg, result, pass2, archive, songIds, dirExists, disabled, call,
              ret, log, songIds0, archive0, m3u, pcs, handle>>

\* markers, never equal to a text (a text holds one-character strings)
Pending == <<"pending">>
NoFile  == <<"nofile">>
None    == <<"None">>

----------------------------------------------------------------------------
(* Characters and strings *)

Digits == <<"0", "1", "2", "3", "4", "5", "6", "7", "8", "9">>
Lowers == <<"a", "b", "c", "d", "e", "f", "g", "h", "i", "j", "k", "l", "m",
            "n", "o", "p", "q", "r", "s", "t", "u", "v", "w", "x", "y", "z">>
Uppers == <<"A", "B", "C", "D", "E", "F", "G", "H", "I", "J", "K", "L", "M",
            "N", "O", "P", "Q", "R", "S", "T", "U", "V", "W", "X", "Y", "Z">>

Range(f) == {f[i] : i \in DOMAIN f}

\* chr(0) .. chr(31); "\t" is chr(9), "\n" chr(10), "\f" chr(12), "\r" chr(13)
Control == {"^@", "^A", "^B", "^C", "^D", "^E", "^F", "^G", "^H", "\t", "\n",
            "^K", "\f", "\r", "^N", "^O", "^P", "^Q", "^R", "^S", "^T", "^U",
            "^V", "^W", "^X", "^Y", "^Z", "^[", "^\\", "^]", "^^", "^_"}

\* what \s matches in a str pattern, and what str.strip() removes; "U+00A0"
\* stands for the whitespace characters outside ASCII
WhiteSpace == {" ", "\t", "\n", "^K", "\f", "\r", "^\\", "^]", "^^", "^_",
               "U+00A0"}

\* [0-9a-zA-Z]
AlNum == Range(Digits) \cup Range(Lowers) \cup Range(Uppers)

\* \w restricted to ASCII
WordChar == AlNum \cup {"_"}

Drop(s, n) == SubSeq(s, n + 1, Len(s))
Take(s, n) == SubSeq(s, 1, n)

HasPrefix(s, p) == Len(s) >= Len(p) /\ Take(s, Len(p)) = p

RECURSIVE Concat(_)
Concat(ss) == IF ss = <<>> THEN <<>> ELSE Head(ss) \o Concat(Tail(ss))

\* str(n) for an integer n >= 0
RECURSIVE Str(_)
Str(n) == IF n < 10 THEN <<Digits[n + 1]>>
          ELSE Str(n \div 10) \o <<Digits[(n % 10) + 1]>>

\* str.zfill(width): pad on the left with "0" up to width, never truncate
RECURSIVE zfill(_, _)
zfill(s, width) == IF Len(s) >= width THEN s ELSE zfill(<<"0">> \o s, width)

----------------------------------------------------------------------------
(* fmt_seconds *)

MaxSecs == 7300

\* secs is a whole number here, so math.floor(secs) is secs; val - s and
\* val - m are multiples of 60, so the float division val /= 60 is exact
fmt_seconds(secs) ==
    LET val0 == secs
        s    == val0 % 60
        val1 == (val0 - s) \div 60
        m    == val1 % 60
        val2 == (val1 - m) \div 60
        h    == val2
    IN  IF h = 0 /\ m = 0 /\ s = 0 THEN <<"0", "s">>
        ELSE IF h = 0 /\ m = 0 THEN zfill(Str(s) \o <<"s">>, 2)
        ELSE IF h = 0 THEN zfill(Str(m), 2) \o <<":">> \o zfill(Str(s), 2)
        ELSE zfill(Str(h), 2) \o <<":">> \o zfill(Str(m), 2) \o <<":">>
             \o zfill(Str(s), 2)

IdleFs == /\ archive = NoFile /\ songIds = NoFile /\ dirExists = FALSE
          /\ disabled = FALSE /\ call = <<>> /\ ret = Pending /\ log = <<>>
          /\ songIds0 = NoFile /\ archive0 = NoFile /\ m3u = NoFile
IdleConc == pcs = <<>> /\ handle = <<>>
IdlePure == arg = <<>> /\ result = Pending /\ pass2 = Pending

InitFmt == /\ arg \in 0..MaxSecs
           /\ result = Pending /\ pass2 = Pending
           /\ IdleFs /\ IdleConc

FmtCall == /\ result = Pending
           /\ result' = fmt_seconds(arg)
           /\ UNCHANGED <<arg, pass2, fsVars, concVars>>

NextFmt == FmtCall

SpecFmt == InitFmt /\ [][NextFmt]_vars

Pad2(n) == IF n < 10 THEN <<"0">> \o Str(n) ELSE Str(n)

ClaimedFmt(n) ==
    LET s == n % 60
        m == (n \div 60) % 60
        h == n \div 3600
    IN  IF h = 0 /\ m = 0 /\ s = 0 THEN <<"0", "s">>
        ELSE IF h = 0 /\ m = 0 THEN Pad2(s) \o <<"s">>
        ELSE IF h = 0 THEN Pad2(m) \o <<":">> \o Pad2(s)
        ELSE Pad2(h) \o <<":">> \o Pad2(m) \o <<":">> \o Pad2(s)

\* C6: for every whole number of seconds n >= 0 with s = n mod 60,
\* m = (n div 60) mod 60, h = n div 3600, fmt_seconds(n) is "0s" when all are
\* zero, the seconds zero-padded to width 2 followed by "s" when only s > 0
\* (fmt_seconds(5) = "05s"), "MM:SS" when h = 0 < m, "HH:MM:SS" when h > 0.
C6_FmtSecondsAsClaimed == result # Pending => result = ClaimedFmt(arg)

----------------------------------------------------------------------------
(* fix_filename *)

\* [/\\:|<>"?*\0-\x1f]
Forbidden == {"/", "\\", ":", "|", "<", ">", "\"", "?", "*"} \cup Control

\* re.IGNORECASE on the letters of the device names
ToUpper(c) == IF \E i \in DOMAIN Lowers : Lowers[i] = c
              THEN Uppers[CHOOSE i \in DOMAIN Lowers : Lowers[i] = c]
              ELSE c

\* How many characters (AUX|COM[1-9]|CON|LPT[1-9]|NUL|PRN) matches at the
\* start of s, or 0. The alternatives are tried in order; no two of them
\* match the same text, so the first that matches is the only one.
ReservedLen(s) ==
    LET u(i) == IF i <= Len(s) THEN ToUpper(s[i]) ELSE ""
        w3   == <<u(1), u(2), u(3)>>
        d4   == u(4) \in (Range(Digits) \ {"0"})
    IN  IF w3 = <<"A", "U", "X">> THEN 3
        ELSE IF w3 = <<"C", "O", "M">> /\ d4 THEN 4
        ELSE IF w3 = <<"C", "O", "N">> THEN 3
        ELSE IF w3 = <<"L", "P", "T">> /\ d4 THEN 4
        ELSE IF w3 = <<"N", "U", "L">> THEN 3
        ELSE IF w3 = <<"P", "R", "N">> THEN 3
        ELSE 0

\* (?![^.]) after the first n characters: the next character is no
\* character other than a period, so it is a period or the end
NotFollowedByNonPeriod(s, n) == n = Len(s) \/ s[n + 1] = "."

\* $ without re.MULTILINE, after the first n characters: the end of the
\* string, or just before a newline that ends the string
AtDollar(s, n) == n = Len(s) \/ (n = Len(s) - 1 /\ s[Len(s)] = "\n")

\* The length of the leftmost match of the pattern that begins at character i
\* (0 when none does): the alternatives in the order the pattern lists them.
MatchLenAt(s, i) ==
    IF s[i] \in Forbidden THEN 1
    ELSE IF i = 1 /\ ReservedLen(s) > 0
            /\ NotFollowedByNonPeriod(s, ReservedLen(s)) THEN ReservedLen(s)
    ELSE IF i = 1 /\ s[1] \in WhiteSpace THEN 1
    ELSE IF s[i] \in (WhiteSpace \cup {"."}) /\ AtDollar(s, i) THEN 1
    ELSE 0

\* re.sub(pattern, "_", s): scan left to right, replace each match by repl
\* and go on after it, copy a character no match begins at
RECURSIVE SubFrom(_, _, _)
SubFrom(s, i, repl) ==
    IF i > Len(s) THEN <<>>
    ELSE IF MatchLenAt(s, i) > 0
         THEN repl \o SubFrom(s, i + MatchLenAt(s, i), repl)
         ELSE <<s[i]>> \o SubFrom(s, i + 1, repl)

fix_filename_empty_repl(name) == SubFrom(name, 1, <<>>)

fix_filename(name) == SubFrom(name, 1, <<"_">>)

MaxNameLen == 4

NameAlphabet == {"C", "O", "N", "M", "1", "o", ".", " ", "\n", "/", "x"}

\* the doctests of fix_filename
Doctests == { <<" ", " ", "C", "O", "M", "1", " ", " ">>,
              <<"C", "O", "M", "1", "0">>,
              <<"C", "O", "M", "1", ",">>,
              <<"C", "O", "M", "1", ".", "t", "x", "t">> }

Names == UNION {[1..n -> NameAlphabet] : n \in 0..MaxNameLen}
         \cup Doctests
         \cup {<<c>> : c \in Control \cup WhiteSpace \cup Forbidden}

InitFix == /\ arg \in Names
           /\ result = Pending /\ pass2 = Pending
           /\ IdleFs /\ IdleConc

FixCall == /\ result = Pending
           /\ result' = fix_filename(arg)
           /\ UNCHANGED <<arg, pass2, fsVars, concVars>>

FixAgain == /\ result # Pending /\ pass2 = Pending
            /\ pass2' = fix_filename(result)
            /\ UNCHANGED <<arg, result, fsVars, concVars>>

NextFix == FixCall \/ FixAgain

SpecFix == InitFix /\ [][NextFix]_vars

\* C7: fix_filename is idempotent: a second pass over the output of the
\* first returns it unchanged, because it finds no match of the pattern in it
\* (no reserved device name, no leading whitespace, no trailing whitespace or
\* period, no forbidden character).
C7_FixFilenameIdempotent ==
    pass2 # Pending =>
        /\ pass2 = result
        /\ \A i \in 1..Len(result) : MatchLenAt(result, i) = 0

\* a first pass that replaced something, then the second pass
C7_Witness == /\ pass2 # Pending /\ result # arg
              /\ ReservedLen(arg) > 0 /\ Len(result) < Len(arg)

\* What the claim says fix_filename returns: a reserved device name that
\* starts the string and is followed by the end or a period becomes one "_";
\* of the other characters, a forbidden one, a first one that is whitespace
\* and a last one that is whitespace or a period become "_"; the rest stay.
ClaimedFix(s) ==
    LET r == IF ReservedLen(s) > 0 /\ NotFollowedByNonPeriod(s, ReservedLen(s))
             THEN ReservedLen(s) ELSE 0
        one(i) == IF \/ s[i] \in Forbidden
                     \/ (i = 1 /\ s[i] \in WhiteSpace)
                     \/ (i = Len(s) /\ s[i] \in WhiteSpace \cup {"."})
                  THEN "_" ELSE s[i]
    IN  (IF r > 0 THEN <<"_">> ELSE <<>>)
        \o [k \in 1..(Len(s) - r) |-> one(k + r)]

\* C8: fix_filename replaces, one for one, every forbidden and every control
\* character by "_", a reserved device name by a single "_" only when it
\* starts the string and the end or a period follows it, only the first
\* character when it is whitespace and only the last when it is whitespace
\* or a period; every other character is left unchanged.
C8_FixFilenameAsClaimed == result # Pending => result = ClaimedFix(arg)

----------------------------------------------------------------------------
(* regex_input_for_urls *)

IdLen == 22

S_spotify == <<"s", "p", "o", "t", "i", "f", "y", ":">>
S_http    == <<"h", "t", "t", "p">>
S_sep     == <<":", "/", "/">>
S_host    == <<"o", "p", "e", "n", ".", "s", "p", "o", "t", "i", "f", "y",
               ".", "c", "o", "m">>
S_intl    == <<"/", "i", "n", "t", "l", "-">>
S_si      == <<"?", "s", "i", "=">>

\* the six literals, in the order of the returned tuple
Types == << <<"t", "r", "a", "c", "k">>,
            <<"a", "l", "b", "u", "m">>,
            <<"p", "l", "a", "y", "l", "i", "s", "t">>,
            <<"e", "p", "i", "s", "o", "d", "e">>,
            <<"s", "h", "o", "w">>,
            <<"a", "r", "t", "i", "s", "t">> >>

\* (?P<ID>[0-9a-zA-Z]{22}) after the first n characters of s
IdAt(s, n) == /\ Len(s) >= n + IdLen
              /\ \A i \in (n + 1)..(n + IdLen) : s[i] \in AlNum

\* ^spotify:<type>:(?P<ID>[0-9a-zA-Z]{22})$
UriSearch(type, s) ==
    LET p == S_spotify \o type \o <<":">>
    IN  IF HasPrefix(s, p) /\ IdAt(s, Len(p)) /\ AtDollar(s, Len(p) + IdLen)
        THEN SubSeq(s, Len(p) + 1, Len(p) + IdLen)
        ELSE None

\* (https?://)? : how many characters the group takes at the start of s
SchemeLens(s) ==
    {0} \cup {Len(p) : p \in {q \in {S_http \o S_sep, S_http \o <<"s">> \o S_sep} :
                              HasPrefix(s, q)}}

\* (?:/intl-\w+)? after the first n characters: the lengths it can take
IntlLens(s, n) ==
    {0} \cup
    (IF HasPrefix(Drop(s, n), S_intl)
     THEN {Len(S_intl) + j : j \in {k \in 1..(Len(s) - n - Len(S_intl)) :
               \A i \in 1..k : s[n + Len(S_intl) + i] \in WordChar}}
     ELSE {})

\* (\?si=.+?)?$ after the first n characters: nothing, or ?si= and one or
\* more characters other than a newline, then $
TailOk(s, n) ==
    \/ AtDollar(s, n)
    \/ /\ HasPrefix(Drop(s, n), S_si)
       /\ \E k \in 1..(Len(s) - n - Len(S_si)) :
            /\ \A i \in 1..k : s[n + Len(S_si) + i] # "\n"
            /\ AtDollar(s, n + Len(S_si) + k)

\* /<type>/ after the first n characters
TypeAt(type, s, n) == HasPrefix(Drop(s, n), <<"/">> \o type \o <<"/">>)

\* where the id can start: after scheme, host, optional intl segment, /<type>/
UrlIdStarts(type, s) ==
    UNION {IF HasPrefix(Drop(s, a), S_host)
           THEN {a + Len(S_host) + b + Len(type) + 2 :
                    b \in {c \in IntlLens(s, a + Len(S_host)) :
                              TypeAt(type, s, a + Len(S_host) + c)}}
           ELSE {} : a \in SchemeLens(s)}

\* the same without the optional /intl-<locale> segment
UrlIdStartsNoIntl(type, s) ==
    UNION {IF HasPrefix(Drop(s, a), S_host) /\ TypeAt(type, s, a + Len(S_host))
           THEN {a + Len(S_host) + Len(type) + 2}
           ELSE {} : a \in SchemeLens(s)}

\* ^(https?://)?open\.spotify\.com(?:/intl-\w+)?/<type>/(?P<ID>[0-9a-zA-Z]{22})(\?si=.+?)?$
\* (no two ways of matching the prefix end at different places: a scheme
\* excludes the host at the start, /intl- is no /<type>/, and \w+ must reach
\* the next "/")
UrlSearchFrom(starts, s) ==
    LET ok == {n \in starts : IdAt(s, n) /\ TailOk(s, n + IdLen)}
    IN  IF ok = {} THEN None
        ELSE LET n == CHOOSE m \in ok : TRUE IN SubSeq(s, n + 1, n + IdLen)

UrlSearchNoIntl(type, s) == UrlSearchFrom(UrlIdStartsNoIntl(type, s), s)

UrlSearch(type, s) == UrlSearchFrom(UrlIdStarts(type, s), s)

regex_input_for_urls(search_input) ==
    [t \in 1..Len(Types) |->
        IF UriSearch(Types[t], search_input) # None
        THEN UriSearch(Types[t], search_input)
        ELSE UrlSearch(Types[t], search_input)]

\* Inputs: a form, a resource type, the text at the place of the id, a query
S_https   == S_http \o <<"s">> \o S_sep
S_intl_en == S_intl \o <<"e", "n">>
S_si_xyz  == S_si \o <<"x", "y", "z">>

IdWith(c1, c2, k, n) == [i \in 1..n |-> IF i = k THEN c2 ELSE c1]

GoodIds == {IdWith(c1, c2, k, IdLen) :
               c1 \in {"a", "Z", "0"}, c2 \in {"0", "9", "a", "z", "A", "Z"},
               k \in {1, IdLen}}

\* wrong length, or one character outside [0-9a-zA-Z]
BadIds == {IdWith("a", "b", 1, n) : n \in {0, IdLen - 1, IdLen + 1, 2 * IdLen}}
          \cup {IdWith("a", c, k, IdLen) :
                   c \in {"_", "-", " ", "/", "\n", "?"}, k \in {1, 12, IdLen}}
          \cup {IdWith("a", "\n", IdLen + 1, IdLen + 1)}

UrlInputs == [form   : {"uri", "url"},
              scheme : {<<>>, S_http \o S_sep, S_https},
              intl   : {<<>>, S_intl, S_intl_en},
              type   : 1..Len(Types),
              id     : GoodIds \cup BadIds,
              query  : {<<>>, S_si, S_si_xyz, <<"?", "x">>}]

Text(a) == IF a.form = "uri"
           THEN S_spotify \o Types[a.type] \o <<":">> \o a.id \o a.query
           ELSE a.scheme \o S_host \o a.intl \o <<"/">> \o Types[a.type]
                \o <<"/">> \o a.id \o a.query

InitUrl == /\ arg \in {a \in UrlInputs :
                          a.form = "uri" => a.scheme = <<>> /\ a.intl = <<>>}
           /\ result = Pending /\ pass2 = Pending
           /\ IdleFs /\ IdleConc

UrlCall == /\ result = Pending
           /\ result' = regex_input_for_urls(Text(arg))
           /\ UNCHANGED <<arg, pass2, fsVars, concVars>>

NextUrl == UrlCall

SpecUrl == InitUrl /\ [][NextUrl]_vars

OnlySlot(t, id) == [u \in 1..Len(Types) |-> IF u = t THEN id ELSE None]

\* the three forms the claim names, with a 22-character alphanumeric id
ClaimedForm(a) ==
    /\ a.id \in GoodIds
    /\ \/ a.form = "uri" /\ a.query = <<>>
       \/ /\ a.form = "url" /\ a.scheme = S_https /\ a.query = S_si_xyz
          /\ a.intl \in {<<>>, S_intl_en}

\* C4: for each of the six resource types and every 22-character id over
\* [0-9a-zA-Z], the URI spotify:<type>:<id>, the URL
\* https://open.spotify.com/<type>/<id>?si=xyz and that URL with an intl-en
\* segment before <type> give the id in the slot of the type and None in the
\* other five; and for every input at most one slot is not None.
C4_ExtractsTheId ==
    result # Pending =>
        /\ ClaimedForm(arg) => result = OnlySlot(arg.type, arg.id)
        /\ Cardinality({t \in 1..Len(Types) : result[t] # None}) <= 1

C4_Witness == /\ result # Pending /\ ClaimedForm(arg)
              /\ arg.form = "url" /\ arg.intl = S_intl_en /\ arg.type = 6
              /\ result[6] = arg.id

Malformed(id) == Len(id) # IdLen \/ \E i \in 1..Len(id) : id[i] \notin AlNum

\* C5: an input in URI or URL form whose id part is shorter or longer than
\* 22 characters, or holds a character outside [0-9a-zA-Z], gives None in
\* all six slots.
C5_MalformedIdGivesNone ==
    (result # Pending /\ Malformed(arg.id)) =>
        \A t \in 1..Len(Types) : result[t] = None

----------------------------------------------------------------------------
(* The archive and the .song_ids manifest *)

\* what a file holds; a missing file holds nothing
Content(f) == IF f = NoFile THEN <<>> ELSE f

\* the place of the first c in s, or 0
IndexOf(s, c) ==
    LET at == {i \in 1..Len(s) : s[i] = c}
    IN  IF at = {} THEN 0 ELSE CHOOSE i \in at : \A j \in at : i <= j

\* text-mode reading: "\r\n" and "\r" are read as "\n"
RECURSIVE ReadText(_)
ReadText(s) ==
    LET i == IndexOf(s, "\r")
    IN  IF i = 0 THEN s
        ELSE Take(s, i - 1) \o <<"\n">>
             \o ReadText(IF i < Len(s) /\ s[i + 1] = "\n"
                         THEN Drop(s, i + 1) ELSE Drop(s, i))

\* the length of the first line of s, its "\n" included
FirstLineLen(s) == IF IndexOf(s, "\n") = 0 THEN Len(s) ELSE IndexOf(s, "\n")

\* file.readlines(): the lines, each with its line end
RECURSIVE readlines(_)
readlines(s) ==
    IF s = <<>> THEN <<>>
    ELSE <<Take(s, FirstLineLen(s))>> \o readlines(Drop(s, FirstLineLen(s)))

\* str.strip()
RECURSIVE strip(_)
strip(s) ==
    IF s = <<>> THEN s
    ELSE IF s[1] \in WhiteSpace THEN strip(Tail(s))
    ELSE IF s[Len(s)] \in WhiteSpace THEN strip(Take(s, Len(s) - 1))
    ELSE s

\* s.split('\t')[0]
FirstField(s) == IF IndexOf(s, "\t") = 0 THEN s ELSE Take(s, IndexOf(s, "\t") - 1)

\* [line.strip().split('\t')[0] for line in f.readlines()]
IdsOf(file) ==
    LET lines == readlines(ReadText(file))
    IN  [i \in 1..Len(lines) |-> FirstField(strip(lines[i]))]

\* f'{song_id}\t{now}\t{author_name}\t{song_name}\t{filename}\n'
Line(c) == c.song_id \o <<"\t">> \o c.now \o <<"\t">> \o c.author_name
           \o <<"\t">> \o c.song_name \o <<"\t">> \o c.filename \o <<"\n">>

MaxCalls == 2

\* two song ids of 22 characters over [0-9a-zA-Z]
SongIds == {IdWith("a", "Z", 1, IdLen), IdWith("7", "x", IdLen, IdLen)}

\* datetime.now().strftime("%Y-%m-%d %H:%M:%S") at two moments
Stamp(sec) == <<"2", "0", "2", "4", "-", "0", "1", "-", "3", "1", " ",
                "2", "3", ":", "5", "9", ":", "5", sec>>
Stamps == {Stamp("8"), Stamp("9")}

Titles == { <<"S", "o">>, <<"S", "\n", "o">>, <<"\t", "\r", " ">> }
Authors == { <<"A">> }
Filenames == { <<"f", ".", "o", "g", "g">> }

CallArgs == [song_id : SongIds, now : Stamps, author_name : Authors,
             song_name : Titles, filename : Filenames]

\* a manifest left by an earlier run
OldManifest == Line([song_id |-> IdWith("o", "l", 1, IdLen), now |-> Stamp("0"),
                     author_name |-> <<"A">>, song_name |-> <<"S">>,
                     filename |-> <<"f">>])

InitFs == /\ archive = NoFile /\ archive0 = NoFile
          /\ dirExists \in BOOLEAN
          /\ disabled \in BOOLEAN
          /\ songIds \in (IF dirExists THEN {NoFile, <<>>, OldManifest}
                          ELSE {NoFile})
          /\ songIds0 = songIds
          /\ call = [op |-> "start"] /\ ret = Pending /\ log = <<>>
          /\ m3u = NoFile
          /\ IdlePure /\ IdleConc

create_download_directory ==
    /\ dirExists' = TRUE
    /\ songIds' = IF ~disabled /\ songIds = NoFile THEN <<>> ELSE songIds
    /\ call' = [op |-> "create_download_directory"]
    /\ UNCHANGED <<archive, disabled, ret, log, songIds0, archive0, m3u,
                   pureVars, concVars>>

get_previously_downloaded ==
    /\ ret' = IF archive # NoFile THEN IdsOf(archive) ELSE <<>>
    /\ call' = [op |-> "get_previously_downloaded"]
    /\ UNCHANGED <<archive, songIds, dirExists, disabled, log, songIds0, archive0,
                   m3u, pureVars, concVars>>

add_to_archive ==
    \E c \in CallArgs :
        /\ Len(log) < MaxCalls
        /\ archive' = IF archive # NoFile THEN archive \o Line(c) ELSE Line(c)
        /\ call' = [op |-> "add_to_archive", args |-> c, wrote |-> TRUE]
        /\ log' = Append(log, [file |-> "archive", args |-> c])
        /\ UNCHANGED <<songIds, dirExists, disabled, ret, songIds0, archive0,
                       m3u, pureVars, concVars>>

get_directory_song_ids ==
    /\ ret' = IF songIds # NoFile /\ ~disabled THEN IdsOf(songIds) ELSE <<>>
    /\ call' = [op |-> "get_directory_song_ids"]
    /\ UNCHANGED <<archive, songIds, dirExists, disabled, log, songIds0, archive0,
                   m3u, pureVars, concVars>>

\* the same without the early return on the configuration flag
add_to_directory_song_ids_unguarded ==
    \E c \in CallArgs :
        /\ Len(log) < MaxCalls
        /\ songIds' = IF dirExists THEN Content(songIds) \o Line(c) ELSE songIds
        /\ call' = [op |-> "add_to_directory_song_ids", args |-> c,
                    wrote |-> dirExists]
        /\ log' = IF dirExists THEN Append(log, [file |-> "songIds", args |-> c])
                  ELSE log
        /\ UNCHANGED <<archive, dirExists, disabled, ret, songIds0, archive0,
                       m3u, pureVars, concVars>>

\* open(..., 'a') raises FileNotFoundError when the directory is missing
add_to_directory_song_ids ==
    \E c \in CallArgs :
        LET writes == ~disabled /\ dirExists IN
        /\ Len(log) < MaxCalls
        /\ songIds' = IF writes THEN Content(songIds) \o Line(c) ELSE songIds
        /\ call' = [op |-> "add_to_directory_song_ids", args |-> c,
                    wrote |-> writes]
        /\ log' = IF writes THEN Append(log, [file |-> "songIds", args |-> c])
                  ELSE log
        /\ UNCHANGED <<archive, dirExists, disabled, ret, songIds0, archive0,
                       m3u, pureVars, concVars>>

NextFs == \/ create_download_directory
          \/ get_previously_downloaded
          \/ add_to_archive
          \/ get_directory_song_ids
          \/ add_to_directory_song_ids

SpecFs == InitFs /\ [][NextFs]_vars

\* the directory-scoped operations alone
NextDir == \/ create_download_directory
           \/ get_directory_song_ids
           \/ add_to_directory_song_ids

SpecDir == InitFs /\ [][NextDir]_vars

IsPrefix(p, s) == Len(p) <= Len(s) /\ Take(s, Len(p)) = p

NewLines(s) == Cardinality({i \in 1..Len(s) : s[i] = "\n"})

Adds == {"add_to_archive", "add_to_directory_song_ids"}

\* a step of one file: nothing, or one record appended (the file created if
\* absent) and nothing before it changed
Untouched(f, g) == g = f
Appended(f, g, c) == g # NoFile /\ g = Content(f) \o Line(c)

\* No step removes, rewrites or reorders what a file holds: what it held
\* before the step is a prefix of what it holds after, and each step of
\* add_to_archive or add_to_directory_song_ids that writes appends exactly
\* the record of its arguments to its file and leaves the other file alone.
AppendOnly ==
    [][/\ IsPrefix(Content(archive), Content(archive'))
       /\ IsPrefix(Content(songIds), Content(songIds'))
       /\ (archive # NoFile => archive' # NoFile)
       /\ (songIds # NoFile => songIds' # NoFile)
       /\ (call'.op = "add_to_archive" =>
              Appended(archive, archive', call'.args) /\ Untouched(songIds, songIds'))
       /\ (call'.op = "add_to_directory_song_ids" =>
              /\ Untouched(archive, archive')
              /\ IF call'.wrote THEN Appended(songIds, songIds', call'.args)
                 ELSE Untouched(songIds, songIds'))]_vars

\* C1: the archive is append-only: each call of add_to_archive or
\* add_to_directory_song_ids that writes adds exactly one new line (id,
\* timestamp, author, title, filename, tab-separated, newline-terminated) at
\* the end of its file, creating the file if absent, and what the file held
\* before the call is an unchanged prefix of what it holds after.
C1_EachWriteAddsOneLine ==
    [][(call'.op \in Adds /\ call'.wrote) =>
          LET f == IF call'.op = "add_to_archive" THEN archive ELSE songIds
              g == IF call'.op = "add_to_archive" THEN archive' ELSE songIds'
          IN  /\ Appended(f, g, call'.args)
              /\ NewLines(g) = NewLines(Content(f)) + 1]_vars

\* the ids of the calls that wrote to a file, in call order
Written(file) ==
    LET w == SelectSeq(log, LAMBDA e : e.file = file)
    IN  [i \in 1..Len(w) |-> w[i].args.song_id]

\* C2: read-after-write: starting from a missing archive, after any
\* add_to_archive calls with 22-character alphanumeric ids,
\* get_previously_downloaded returns exactly those ids in call order, repeats
\* kept (the empty list while the file is missing); the same for
\* add_to_directory_song_ids and get_directory_song_ids on a fresh directory
\* with directory archiving enabled.
C2_ReadsBackTheIds ==
    /\ call.op = "get_previously_downloaded" => ret = Written("archive")
    /\ (call.op = "get_directory_song_ids" /\ ~disabled
        /\ songIds0 \in {NoFile, <<>>}) => ret = Written("songIds")

\* C3: with directory archiving disabled, no sequence of
\* create_download_directory, add_to_directory_song_ids and
\* get_directory_song_ids calls creates or modifies .song_ids, and
\* get_directory_song_ids returns the empty list, also when the file exists.
C3_DisabledIsNoOp ==
    disabled =>
        /\ songIds = songIds0
        /\ call.op = "get_directory_song_ids" => ret = <<>>
        /\ call.op = "add_to_directory_song_ids" => ~call.wrote

C3_Witness ==
    /\ disabled /\ dirExists /\ ret = <<>> /\ songIds = songIds0
    /\ call.op = "add_to_directory_song_ids"

----------------------------------------------------------------------------
(* add_to_m3u *)

MaxM3uCalls == 2

S_header == <<"#", "E", "X", "T", "M", "3", "U", "\n", "\n">>
S_extinf == <<"#", "E", "X", "T", "I", "N", "F", ":">>

\* song_duration is a float; the model holds it in tenths of a second
Durations == {0, 9, 10, 59, 2015}

\* int(song_duration): towards zero
PyInt(tenths) == IF tenths >= 0 THEN tenths \div 10 ELSE -((-tenths) \div 10)

M3uArgs == [filename : {<<"a", "/", "f">>, <<"g">>},
            song_duration : Durations,
            song_name : {<<"S", "o">>, <<"S", "\n", "o">>}]

\* get_root_path() / (datetime_launch + "_zotify.m3u8"): the root path and
\* the launch time are fixed when the run begins, so every call of the run
\* computes this one path, and the time-stamped name is new to the run
m3u_path == <<"root_path", "datetime_launch", "_zotify.m3u8">>

\* what the two writes of the second with-block add
M3uEntry(c) == S_extinf \o Str(PyInt(c.song_duration)) \o <<",", " ">>
               \o c.song_name \o <<"\n">> \o c.filename \o <<"\n", "\n">>

InitM3u == /\ archive = NoFile /\ archive0 = NoFile
           /\ songIds = NoFile /\ songIds0 = NoFile
           /\ dirExists = TRUE /\ disabled = FALSE
           /\ call = [op |-> "start"] /\ ret = Pending /\ log = <<>>
           /\ m3u = NoFile
           /\ IdlePure /\ IdleConc

\* the same writing the header on every call
add_to_m3u_header_each_call ==
    \E c \in M3uArgs :
        /\ Len(log) < MaxM3uCalls
        /\ m3u' = Content(m3u) \o S_header \o M3uEntry(c)
        /\ call' = [op |-> "add_to_m3u", path |-> m3u_path, args |-> c]
        /\ log' = Append(log, c)
        /\ UNCHANGED <<archive, songIds, dirExists, disabled, ret, songIds0,
                       archive0, pureVars, concVars>>

add_to_m3u ==
    \E c \in M3uArgs :
        /\ Len(log) < MaxM3uCalls
        /\ m3u' = (IF m3u = NoFile THEN S_header ELSE m3u) \o M3uEntry(c)
        /\ call' = [op |-> "add_to_m3u", path |-> m3u_path, args |-> c]
        /\ log' = Append(log, c)
        /\ UNCHANGED <<archive, songIds, dirExists, disabled, ret, songIds0,
                       archive0, pureVars, concVars>>

NextM3u == add_to_m3u

SpecM3u == InitM3u /\ [][NextM3u]_vars

\* block i as the claim words it
ClaimedBlock(c) ==
    LET whole == CHOOSE n \in 0..(c.song_duration \div 10 + 1) :
                    n * 10 <= c.song_duration /\ c.song_duration < (n + 1) * 10
    IN  S_extinf \o Str(whole) \o <<",", " ">> \o c.song_name \o <<"\n">>
        \o c.filename \o <<"\n">> \o <<"\n">>

\* C9: after n >= 1 calls of add_to_m3u the playlist file is the header
\* #EXTM3U and a blank line, once, followed by exactly n blocks in call
\* order: #EXTINF:<duration truncated to an integer>, <title>, then the
\* file name, then a blank line; no step rewrites an earlier block.
C9_HeaderOnceThenBlocks ==
    /\ log = <<>> => m3u = NoFile
    /\ log # <<>> =>
         m3u = S_header \o Concat([i \in 1..Len(log) |-> ClaimedBlock(log[i])])

C9_Witness == /\ Len(log) = 2 /\ log[1] # log[2]
              /\ log[1].song_duration = 2015 /\ log[2].song_duration = 9
              /\ m3u # NoFile

----------------------------------------------------------------------------
(* Two concurrent calls of add_to_archive *)

Procs == {1, 2}

\* the archive of an earlier run
OldArchive == OldManifest

\* the mode add_to_archive opens the file in, from Path(archive_path).exists()
OpenModeAlwaysW(exists) == "w"

OpenMode(exists) == IF exists THEN "a" ELSE "w"

InitConc == /\ archive \in {NoFile, OldArchive}
            /\ archive0 = archive
            /\ pcs \in [Procs -> [pc : {"check"}, args : CallArgs]]
            /\ handle = [p \in Procs |-> "closed"]
            /\ songIds = NoFile /\ songIds0 = NoFile
            /\ dirExists = FALSE /\ disabled = FALSE
            /\ call = <<>> /\ ret = Pending /\ log = <<>> /\ m3u = NoFile
            /\ IdlePure

\* if Path(archive_path).exists():
Check(p) ==
    /\ pcs[p].pc = "check"
    /\ pcs' = [pcs EXCEPT ![p].pc = "open"]
    /\ handle' = [handle EXCEPT ![p] = OpenMode(archive # NoFile)]
    /\ UNCHANGED <<fsVars, pureVars>>

\* open(archive_path, 'a') creates a missing file; open(archive_path, 'w')
\* creates it or empties it, and the handle writes from the start
Open(p) ==
    /\ pcs[p].pc = "open"
    /\ pcs' = [pcs EXCEPT ![p].pc = "write"]
    /\ archive' = IF handle[p] = "w" THEN <<>> ELSE Content(archive)
    /\ UNCHANGED <<songIds, dirExists, disabled, call, ret, log, songIds0,
                   archive0, m3u, handle, pureVars>>

\* the buffered line reaches the file in one write when the with-block ends:
\* at the end of the file in mode 'a', at the handle's offset 0 in mode 'w'
Write(p) ==
    /\ pcs[p].pc = "write"
    /\ pcs' = [pcs EXCEPT ![p].pc = "done"]
    /\ archive' = IF handle[p] = "a" THEN archive \o Line(pcs[p].args)
                  ELSE Line(pcs[p].args) \o Drop(archive, Len(Line(pcs[p].args)))
    /\ handle' = [handle EXCEPT ![p] = "closed"]
    /\ UNCHANGED <<songIds, dirExists, disabled, call, ret, log, songIds0,
                   archive0, m3u, pureVars>>

NextConc == \E p \in Procs : Check(p) \/ Open(p) \/ Write(p)

SpecConc == InitConc /\ [][NextConc]_vars

AllDone == \A p \in Procs : pcs[p].pc = "done"

BothLines ==
    archive \in {Content(archive0) \o Line(pcs[1].args) \o Line(pcs[2].args),
                 Content(archive0) \o Line(pcs[2].args) \o Line(pcs[1].args)}

\* C10: two add_to_archive calls run concurrently on one archive path, each
\* write one atomic step: in every interleaving of their steps the archive
\* finally holds both full lines, also when the file is missing at the start.
C10_BothLinesAlways == AllDone => BothLines

\* C10, amended: the same when the archive file exists when the calls start.
C10_BothLinesWhenFileExists == (AllDone /\ archive0 # NoFile) => BothLines

C10_Witness ==
    /\ AllDone /\ archive0 # NoFile /\ pcs[1].args # pcs[2].args
    /\ archive = archive0 \o Line(pcs[2].args) \o Line(pcs[1].args)

====
